---- MODULE Spec2Model ----
(***************************************************************************)
(* Model of Capto: the caption engine (src/caption_creator.py) and the    *)
(* job server (src/main.py).                                               *)
(*                                                                         *)
(* Four state machines share this module; each holds the variables of the  *)
(* others at their idle values:                                            *)
(*   Spec        the caption schedulers generate_grouped_captions_with_-   *)
(*               highlight and generate_word_by_word_captions, one loop    *)
(*               iteration per step, with the timing resolver              *)
(*               _calculate_word_duration;                                 *)
(*   SpecLayout  one call of _create_highlighted_group_clip: the greedy    *)
(*               line layout and the rasterizer's draw loop;               *)
(*   SpecAnim    one call of _create_animated_text_clip and the frames     *)
(*               MoviePy renders from the clip it returns;                 *)
(*   SpecJobs    the websocket ConnectionManager and one background job    *)
(*               of process_video_background, one step per await.          *)
(*                                                                         *)
(* Times are integer ticks (one tick = 0.025 s), pixel sizes are integers. *)
(* Python indices are 0-based: word index i is word_timestamps[i + 1].     *)
(***************************************************************************)
EXTENDS Integers, Sequences, FiniteSets, TLC

\* ---- bounds ------------------------------------------------------------
MaxWords == 3          \* longest transcription
MaxTime == 2           \* largest time stamp, in ticks
MaxWordCount == 2      \* largest config.word_count
MaxGroupLen == 3       \* longest group handed to the group-clip renderer
MaxCaptionWidth == 5   \* widest caption canvas, in pixels
MaxDuration == 10      \* longest animated clip, in ticks
MaxFade == 3           \* largest config.fade_duration, in ticks
MaxClients == 2        \* websocket client ids
MaxSlots == 3          \* dict slots used: connects of new keys

\* ---- program constants -------------------------------------------------
MinWordDuration == 2   \* 0.05 s, in ticks: word-by-word skips shorter words
LineSpacing == 10      \* the literal 10 added per line
DescenderPadding == 40 \* int(font_size * 0.4) with the default font_size 100

VARIABLES
    \* scheduler (CaptionCreator fields and the locals of the generate_* loops)
    word_timestamps,   \* self.word_timestamps: sequence of [start, end]
    video_duration,    \* self.video.duration
    word_count,        \* self.config.word_count
    mode,              \* which generate_* method runs
    i,                 \* loop index
    text_clips,        \* the clips appended so far
    timings,           \* every result _calculate_word_duration has returned
    break_index,       \* index at which the loop hit `break`, -1 if none
    output_written,    \* common.write_videofile has run
    pc,                \* "loop", "compose", "done" ("idle" under SpecLayout)
    \* group-clip renderer (arguments and locals of _create_highlighted_group_clip)
    group_words_data,  \* sequence of raw words
    current_word_index,
    group_start_index,
    caption_width,
    caption_parts,     \* cleaned words
    word_to_highlight, \* cleaned text of the current word, or None
    lines,             \* committed lines: [words, width, height]
    current_line,      \* sequence of [word, width, pos]; pos (the word's place
                       \* in the group) is a ghost field identifying the token
    current_line_width,
    max_line_height,
    total_height,
    k,                 \* position in caption_parts / in lines
    y,                 \* top of the line being drawn
    drawn,             \* words drawn: [word, pos, width, line, x, y, box]
    lpc,               \* "prepare", "layout", "commit", "draw", "done" ("idle" under Spec)
    \* style (Config fields the group-clip renderer is configured with)
    highlight_text,    \* config.highlight_text
    horizontal_align,  \* config.horizontal_align
    \* animated clip (arguments, config and locals of _create_animated_text_clip)
    anim_duration,     \* duration, in ticks
    cfg_fade_duration, \* config.fade_duration, in ticks
    cfg_scale_intensity, \* config.scale_effect_intensity, per mille
    use_fade_and_scale,  \* config.use_fade_and_scale
    fade_duration10,   \* 10 * fade_duration, None when no effect is attached
    sample_time2,      \* 2 * the clip-local time of the next frame
    frames,            \* the frames rendered: [t2, scale, fade_in, fade_out]
    apc,               \* "create", "play", "done" ("idle" under the other specifications)
    \* job server (main.py)
    active_connections, \* manager.active_connections: the dict's slots
    task               \* processing_jobs[job_id] and the state of its background task

schedVars == <<word_timestamps, video_duration, word_count, mode, i, text_clips,
               timings, break_index, output_written, pc>>
layoutVars == <<group_words_data, current_word_index, group_start_index,
                caption_width, caption_parts, word_to_highlight, lines,
                current_line, current_line_width, max_line_height,
                total_height, k, y, drawn, lpc>>
styleVars == <<highlight_text, horizontal_align>>
animVars == <<anim_duration, cfg_fade_duration, cfg_scale_intensity,
              use_fade_and_scale, fade_duration10, sample_time2, frames, apc>>
jobVars == <<active_connections, task>>
vars == <<schedVars, layoutVars, styleVars, animVars, jobVars>>

None == "None"

Min(a, b) == IF a <= b THEN a ELSE b
Max(a, b) == IF a >= b THEN a ELSE b

\* ---- timing resolver ---------------------------------------------------
WordAt(ts, idx) == ts[idx + 1]

\* (mutant) the word's own end is used even when a next word exists
calculate_word_duration_OwnEnd(ts, vd, word_index) ==
    LET word_data == WordAt(ts, word_index)
        end_time == Min(word_data.end, vd)
    IN  [index |-> word_index, start |-> word_data.start, end |-> end_time,
         duration |-> end_time - word_data.start]

\* (mutant) the next word's end is taken instead of its start
calculate_word_duration_NextEnd(ts, vd, word_index) ==
    LET word_data == WordAt(ts, word_index)
        end_time0 == IF word_index < Len(ts) - 1
                     THEN WordAt(ts, word_index + 1).end
                     ELSE word_data.end
        end_time == Min(end_time0, vd)
    IN  [index |-> word_index, start |-> word_data.start, end |-> end_time,
         duration |-> end_time - word_data.start]

\* (mutant) the end time is not clamped to the video duration
calculate_word_duration_NoClamp(ts, vd, word_index) ==
    LET word_data == WordAt(ts, word_index)
        end_time == IF word_index < Len(ts) - 1
                    THEN WordAt(ts, word_index + 1).start
                    ELSE word_data.end
    IN  [index |-> word_index, start |-> word_data.start, end |-> end_time,
         duration |-> end_time - word_data.start]

\* _calculate_word_duration(word_index) -> (start_time, end_time, duration)
calculate_word_duration(ts, vd, word_index) ==
    LET word_data == WordAt(ts, word_index)
        start_time == word_data.start
        end_time0 == IF word_index < Len(ts) - 1
                     THEN WordAt(ts, word_index + 1).start
                     ELSE word_data.end
        end_time == Min(end_time0, vd)
    IN  [index |-> word_index, start |-> start_time, end |-> end_time,
         duration |-> end_time - start_time]

\* ---- grouping ----------------------------------------------------------
\* (mutant) the window slides with the word instead of snapping to a multiple
GroupStartIndex_Sliding(idx, wc) == idx

GroupStartIndex(idx, wc) == (idx \div wc) * wc
GroupEndIndex(idx, wc, n) == Min(n, GroupStartIndex(idx, wc) + wc)

\* ---- scheduler ---------------------------------------------------------
\* (mutant) a word starting exactly at the video's end does not stop the loop
BeyondVideo_Strict(t, vd) == t.start > vd

\* `if start_time >= self.video.duration: break`
BeyondVideo(t, vd) == t.start >= vd

\* (mutant) a zero duration is not skipped
TooShortGrouped_Strict(t) == t.duration < 0

\* grouped: `if duration <= 0: continue`
TooShortGrouped(t) == t.duration <= 0

\* word-by-word: `if duration < 0.05: continue`
TooShortWordByWord(t) == t.duration < MinWordDuration

Times == 0..MaxTime
WordTimestamp == {w \in [start : Times, end : Times] : w.start <= w.end}
Transcriptions == UNION {[1..n -> WordTimestamp] : n \in 0..MaxWords}

LayoutIdle ==
    /\ group_words_data = <<>>
    /\ current_word_index = 0
    /\ group_start_index = 0
    /\ caption_width = 0
    /\ caption_parts = <<>>
    /\ word_to_highlight = None
    /\ lines = <<>>
    /\ current_line = <<>>
    /\ current_line_width = 0
    /\ max_line_height = 0
    /\ total_height = 0
    /\ k = 0
    /\ y = 0
    /\ drawn = <<>>
    /\ lpc = "idle"

\* ======================================================================
\* _create_animated_text_clip: fade and scale (SpecAnim)
\*
\* duration and config.fade_duration are in ticks; the clip is sampled at
\* half ticks (sample_time2 = 2 * t) so that t = duration / 2 is a sample.
\* Scales are numerators over 1000 * HalfSpan2(duration); a fade factor is a
\* fraction [num, den].  FadeIn and FadeOut are MoviePy's: the frame is
\* multiplied by t / fade for t < fade and by (duration - t) / fade for
\* duration - t < fade.
\* ======================================================================
ScaleIntensity == 150   \* the literal 0.15 of the resize lambda, per mille
MinScale == 100         \* the literal 0.1 in max(0.1, 1 + ...), per mille
MinHalfSpan2 == 8       \* the literal 0.1 s in max(0.1, duration / 2), doubled, in ticks
FadeCapTenths == 3      \* the literal 0.3 in duration * 0.3, in tenths
DefaultFadeDuration == 8 \* Config.fade_duration = 0.2 s, in ticks

\* values of config.scale_effect_intensity, per mille (0.15 is the default)
Intensities == {150, 300}

Abs(a) == IF a < 0 THEN -a ELSE a

\* 2 * max(0.1, duration / 2)
HalfSpan2(d) == Max(MinHalfSpan2, d)

\* the resize lambda at t = t2 / 2, times 1000 * HalfSpan2(d):
\* max(0.1, 1 + 0.15 * (1 - abs(t - duration / 2) / max(0.1, duration / 2)))
ScaleNum(t2, d) ==
    Max(MinScale * HalfSpan2(d),
        1000 * HalfSpan2(d) + ScaleIntensity * (HalfSpan2(d) - Abs(t2 - d)))

\* (mutant) the cap is 60% of the duration
FadeDuration10_Cap60(cfg_fade, d) == Min(10 * cfg_fade, 6 * d)

\* 10 * min(self.config.fade_duration, duration * 0.3)
FadeDuration10(cfg_fade, d) == Min(10 * cfg_fade, FadeCapTenths * d)

\* FadeIn(fade).filter at time t10 / 10
FadeInFactor(t10, f10) ==
    IF t10 >= f10 THEN [num |-> 1, den |-> 1] ELSE [num |-> t10, den |-> f10]

\* FadeOut(fade).filter at time t10 / 10 of a clip lasting d10 / 10
FadeOutFactor(t10, d10, f10) ==
    IF d10 - t10 >= f10 THEN [num |-> 1, den |-> 1] ELSE [num |-> d10 - t10, den |-> f10]

AnimIdle ==
    /\ anim_duration = 0
    /\ cfg_fade_duration = DefaultFadeDuration
    /\ cfg_scale_intensity = ScaleIntensity
    /\ use_fade_and_scale = TRUE
    /\ fade_duration10 = None
    /\ sample_time2 = 0
    /\ frames = <<>>
    /\ apc = "idle"

\* ======================================================================
\* main.py: ConnectionManager, process_video, process_video_background,
\* websocket_endpoint (SpecJobs)
\*
\* active_connections is the dict's entry array in insertion order: a
\* deleted key leaves an Absent slot and a new key is appended, which is how
\* a dict iterator sees the dict.  The asyncio tasks interleave only at
\* `await`: an action runs one task from one await to its next one.
\* ======================================================================
Absent == 0   \* a deleted dict slot; also "no send in flight"
Clients == 1..MaxClients

\* the progress values of `steps`
Steps == <<20, 40, 60, 80, 100>>

\* mock_timestamps, times in tenths of a second
MockTimestamps ==
    << [word |-> "Hello", start |-> 5, end |-> 10],
       [word |-> "world", start |-> 10, end |-> 15],
       [word |-> "this", start |-> 20, end |-> 23],
       [word |-> "is", start |-> 23, end |-> 25],
       [word |-> "a", start |-> 25, end |-> 26],
       [word |-> "test", start |-> 26, end |-> 30],
       [word |-> "video", start |-> 30, end |-> 35],
       [word |-> "caption", start |-> 40, end |-> 45],
       [word |-> "demonstration", start |-> 45, end |-> 55] >>

\* keys of the dict
Live(entries) == {entries[j] : j \in 1..Len(entries)} \ {Absent}
DictSize(entries) == Cardinality(Live(entries))

\* `del self.active_connections[client_id]` if the key is present
DictDelete(entries, c) ==
    [j \in 1..Len(entries) |-> IF entries[j] = c THEN Absent ELSE entries[j]]

\* `self.active_connections[client_id] = websocket`: a present key keeps its
\* slot, a new key is appended
DictSet(entries, c) == IF c \in Live(entries) THEN entries ELSE Append(entries, c)

\* iter(self.active_connections.items())
NewIter(entries) == [pos |-> 1, used |-> DictSize(entries), remaining |-> DictSize(entries)]

\* next() of the dict iterator: RuntimeError when the size changed since
\* the iterator was made, or when a live slot is found after `used` items
\* were already produced; StopIteration when no live slot is left
IterNext(entries, it) ==
    LET rest == {j \in it.pos..Len(entries) : entries[j] # Absent}
    IN  IF it.used # DictSize(entries) THEN [kind |-> "raise"]
        ELSE IF rest = {} THEN [kind |-> "stop"]
        ELSE IF it.remaining = 0 THEN [kind |-> "raise"]
        ELSE LET j == CHOOSE m \in rest : \A n \in rest : m <= n
             IN  [kind |-> "yield", client |-> entries[j],
                  it |-> [pos |-> j + 1, used |-> it.used, remaining |-> it.remaining - 1]]

\* The task is the record
\*   [job, pc, step, phase, it, sending, start_clients, attempted, returned, raised]
\* job is processing_jobs[job_id]; phase names the broadcast being made
\* ("start", "step", "completed", "error"); start_clients, attempted,
\* returned and raised are ghost fields about the broadcasts.
RECURSIVE BroadcastLoop(_, _)
RECURSIVE Returned(_, _)
RECURSIVE Raised(_, _)

\* `await manager.broadcast(...)` is entered: the iterator is made and the
\* loop runs to its first `await connection.send_text`
Begin(T, entries, phase) ==
    BroadcastLoop([T EXCEPT !.phase = phase, !.it = NewIter(entries),
                      !.start_clients = Live(entries), !.attempted = {}],
            entries)

\* the `for` statement of broadcast takes the next item
BroadcastLoop(T, entries) ==
    LET o == IterNext(entries, T.it)
    IN  CASE o.kind = "yield" ->
                [T EXCEPT !.pc = "broadcast", !.it = o.it, !.sending = o.client,
                          !.attempted = @ \cup {o.client}]
          [] o.kind = "stop" -> Returned([T EXCEPT !.sending = Absent], entries)
          [] o.kind = "raise" -> Raised([T EXCEPT !.sending = Absent], entries)

\* broadcast returned: process_video_background goes on to its next await
Returned(T, entries) ==
    LET R == [T EXCEPT !.returned = [start |-> T.start_clients,
                                     attempted |-> T.attempted,
                                     live |-> Live(entries)]]
    IN  CASE T.phase = "start" -> [R EXCEPT !.pc = "sleep"]
          [] T.phase = "step" ->
                IF T.step < Len(Steps)
                THEN [R EXCEPT !.pc = "sleep"]
                ELSE Begin([R EXCEPT !.job.status = "completed"], entries, "completed")
          [] T.phase = "completed" -> [R EXCEPT !.pc = "finished"]
          [] T.phase = "error" -> [R EXCEPT !.pc = "finished"]

\* broadcast raised: inside the try block the handler sets status "error"
\* and broadcasts again; inside the handler the exception ends the task
Raised(T, entries) ==
    IF T.phase = "error"
    THEN [T EXCEPT !.pc = "crashed", !.raised = TRUE]
    ELSE Begin([T EXCEPT !.job.status = "error", !.raised = TRUE], entries, "error")

NoTask ==
    [job |-> [status |-> None, progress |-> 0, timestamps |-> <<>>],
     pc |-> "none", step |-> 0, phase |-> None,
     it |-> [pos |-> 1, used |-> 0, remaining |-> 0], sending |-> Absent,
     start_clients |-> {}, attempted |-> {},
     returned |-> [start |-> {}, attempted |-> {}, live |-> {}],
     raised |-> FALSE]

JobsIdle ==
    /\ active_connections = <<>>
    /\ task = NoTask

\* the defaults of Config: highlight_text = True, horizontal_align = "center"
StyleDefault ==
    /\ highlight_text = TRUE
    /\ horizontal_align = "center"

Init ==
    /\ word_timestamps \in Transcriptions
    /\ video_duration \in 1..MaxTime
    /\ word_count \in 1..MaxWordCount
    /\ mode \in {"grouped", "word_by_word"}
    /\ i = 0
    /\ text_clips = <<>>
    /\ timings = <<>>
    /\ break_index = -1
    /\ output_written = FALSE
    /\ pc = IF Len(word_timestamps) = 0 THEN "compose" ELSE "loop"
    /\ LayoutIdle
    /\ StyleDefault
    /\ AnimIdle
    /\ JobsIdle

NextPc == IF i + 1 < Len(word_timestamps) THEN "loop" ELSE "compose"

\* one iteration of the for loop of generate_grouped_captions_with_highlight
GroupedIteration ==
    /\ pc = "loop"
    /\ mode = "grouped"
    /\ i < Len(word_timestamps)
    /\ LET gs == GroupStartIndex(i, word_count)
           ge == GroupEndIndex(i, word_count, Len(word_timestamps))
           t == calculate_word_duration(word_timestamps, video_duration, i)
       IN  /\ timings' = Append(timings, t)
           /\ IF BeyondVideo(t, video_duration)
              THEN /\ break_index' = i
                   /\ pc' = "compose"
                   /\ UNCHANGED <<i, text_clips>>
              ELSE IF TooShortGrouped(t)
              THEN /\ i' = i + 1
                   /\ pc' = NextPc
                   /\ UNCHANGED <<text_clips, break_index>>
              ELSE /\ text_clips' = Append(text_clips,
                          [index |-> i, start |-> t.start, end |-> t.end,
                           duration |-> t.duration,
                           group_start |-> gs, group_end |-> ge])
                   /\ i' = i + 1
                   /\ pc' = NextPc
                   /\ UNCHANGED break_index
    /\ UNCHANGED <<word_timestamps, video_duration, word_count, mode, output_written>>
    /\ UNCHANGED <<layoutVars, styleVars, animVars, jobVars>>

\* one iteration of the for loop of generate_word_by_word_captions
WordByWordIteration ==
    /\ pc = "loop"
    /\ mode = "word_by_word"
    /\ i < Len(word_timestamps)
    /\ LET t == calculate_word_duration(word_timestamps, video_duration, i)
       IN  /\ timings' = Append(timings, t)
           /\ IF BeyondVideo(t, video_duration)
              THEN /\ break_index' = i
                   /\ pc' = "compose"
                   /\ UNCHANGED <<i, text_clips>>
              ELSE IF TooShortWordByWord(t)
              THEN /\ i' = i + 1
                   /\ pc' = NextPc
                   /\ UNCHANGED <<text_clips, break_index>>
              ELSE /\ text_clips' = Append(text_clips,
                          [index |-> i, start |-> t.start, end |-> t.end,
                           duration |-> t.duration,
                           group_start |-> i, group_end |-> i + 1])
                   /\ i' = i + 1
                   /\ pc' = NextPc
                   /\ UNCHANGED break_index
    /\ UNCHANGED <<word_timestamps, video_duration, word_count, mode, output_written>>
    /\ UNCHANGED <<layoutVars, styleVars, animVars, jobVars>>

\* CompositeVideoClip([self.video] + text_clips); common.write_videofile(...)
Compose ==
    /\ pc = "compose"
    /\ output_written' = TRUE
    /\ pc' = "done"
    /\ UNCHANGED <<word_timestamps, video_duration, word_count, mode, i,
                   text_clips, timings, break_index>>
    /\ UNCHANGED <<layoutVars, styleVars, animVars, jobVars>>

Next == GroupedIteration \/ WordByWordIteration \/ Compose

Spec == Init /\ [][Next]_vars

\* ======================================================================
\* _create_highlighted_group_clip: layout and drawing (SpecLayout)
\* ======================================================================

\* ---- word normalizer ---------------------------------------------------
\* the characters stripped by _clean_word: . , ! ? ; : and the double quote
\* (the apostrophe is not among them)
StripChars == {".", ",", "!", "?", ";", ":", "\""}

Upper(c) == CASE c = "a" -> "A"
              [] c = "b" -> "B"
              [] OTHER -> c

RECURSIVE LStrip(_)
LStrip(w) == IF w # <<>> /\ Head(w) \in StripChars THEN LStrip(Tail(w)) ELSE w

RECURSIVE RStrip(_)
RStrip(w) == IF w # <<>> /\ w[Len(w)] \in StripChars
             THEN RStrip(SubSeq(w, 1, Len(w) - 1)) ELSE w

\* _clean_word(word): strip the punctuation from both ends, then upper-case
clean_word(w) == LET s == RStrip(LStrip(w)) IN [j \in 1..Len(s) |-> Upper(s[j])]

\* ---- font metrics (PIL draw.textbbox of a string at a fixed font size) --
CharWidth(c) == CASE c = "A" -> 2
                  [] c = "B" -> 3
                  [] OTHER -> 1

CharHeight(c) == CASE c \in {"A", "B"} -> 3
                   [] c = "'" -> 2
                   [] OTHER -> 1

RECURSIVE TextWidth(_)
TextWidth(w) == IF w = <<>> THEN 0 ELSE CharWidth(Head(w)) + TextWidth(Tail(w))

RECURSIVE TextHeight(_)
TextHeight(w) == IF w = <<>> THEN 0 ELSE Max(CharHeight(Head(w)), TextHeight(Tail(w)))

\* width of " " in the font
space_width == 1

\* ---- inputs ------------------------------------------------------------
RawWords == {<<"a">>, <<"A", ",">>, <<"b">>, <<".", "b", "'", "b", "!">>, <<",">>}
Groups == UNION {[1..n -> RawWords] : n \in 1..MaxGroupLen}

InitLayout ==
    /\ group_words_data \in Groups
    /\ group_start_index \in {0, Len(group_words_data)}
    /\ current_word_index \in group_start_index..(group_start_index + Len(group_words_data) - 1)
    /\ caption_width \in 1..MaxCaptionWidth
    /\ highlight_text \in BOOLEAN
    /\ horizontal_align \in {"center", "left", "right"}
    /\ caption_parts = <<>>
    /\ word_to_highlight = None
    /\ lines = <<>>
    /\ current_line = <<>>
    /\ current_line_width = 0
    /\ max_line_height = 0
    /\ total_height = 0
    /\ k = 0
    /\ y = 0
    /\ drawn = <<>>
    /\ lpc = "prepare"
    /\ word_timestamps = <<>>
    /\ video_duration = 1
    /\ word_count = 1
    /\ mode = "grouped"
    /\ i = 0
    /\ text_clips = <<>>
    /\ timings = <<>>
    /\ break_index = -1
    /\ output_written = FALSE
    /\ pc = "idle"
    /\ AnimIdle
    /\ JobsIdle

\* the word the `for j, word_data in enumerate(...)` loop leaves in
\* word_to_highlight: the cleaned word at group_start_index + j == current_word_index
HighlightWord(parts, gs, cur) ==
    IF \E j \in 1..Len(parts) : gs + (j - 1) = cur
    THEN parts[CHOOSE j \in 1..Len(parts) : gs + (j - 1) = cur]
    ELSE None

\* lines 145-170: build caption_parts and word_to_highlight, reset the buffers
Prepare ==
    /\ lpc = "prepare"
    /\ caption_parts' = [j \in 1..Len(group_words_data) |-> clean_word(group_words_data[j])]
    /\ word_to_highlight' = HighlightWord(caption_parts', group_start_index, current_word_index)
    /\ lines' = <<>>
    /\ current_line' = <<>>
    /\ current_line_width' = 0
    /\ max_line_height' = 0
    /\ total_height' = 0
    /\ k' = 1
    /\ lpc' = "layout"
    /\ UNCHANGED <<group_words_data, current_word_index, group_start_index,
                   caption_width, y, drawn>>
    /\ UNCHANGED <<schedVars, styleVars, animVars, jobVars>>

\* `if current_line_width + word_width > caption_width`
Overflows(clw, ww, cw) == clw + ww > cw

\* (mutant) the space after the word is not counted
Advance_NoSpace(clw, ww) == clw + ww

\* `current_line_width += word_width + space_width`
Advance(clw, ww) == clw + ww + space_width

\* `lines.append((current_line, current_line_width, max_line_height))`
CommitLine(ls, cl, clw, mlh) == Append(ls, [words |-> cl, width |-> clw, height |-> mlh])

\* lines 172-188: one iteration of `for word, color in caption_parts`
LayoutWord ==
    /\ lpc = "layout"
    /\ k <= Len(caption_parts)
    /\ LET word == caption_parts[k]
           word_width == TextWidth(word)
           word_height == TextHeight(word)
           mlh == Max(max_line_height, word_height)
           wrap == Overflows(current_line_width, word_width, caption_width)
           entry == [word |-> word, width |-> word_width, pos |-> k]
       IN  /\ lines' = IF wrap THEN CommitLine(lines, current_line, current_line_width, mlh)
                       ELSE lines
           /\ total_height' = IF wrap THEN total_height + mlh + LineSpacing ELSE total_height
           /\ current_line' = Append(IF wrap THEN <<>> ELSE current_line, entry)
           /\ current_line_width' = Advance(IF wrap THEN 0 ELSE current_line_width, word_width)
           /\ max_line_height' = IF wrap THEN word_height ELSE mlh
    /\ k' = k + 1
    /\ lpc' = IF k = Len(caption_parts) THEN "commit" ELSE "layout"
    /\ UNCHANGED <<group_words_data, current_word_index, group_start_index,
                   caption_width, caption_parts, word_to_highlight, y, drawn>>
    /\ UNCHANGED <<schedVars, styleVars, animVars, jobVars>>

\* (mutant) the last line is never flushed
FinalLines_NoFlush(ls, cl, clw, mlh) == ls

\* `if current_line: lines.append(...)`
FinalLines(ls, cl, clw, mlh) == IF cl # <<>> THEN CommitLine(ls, cl, clw, mlh) ELSE ls

\* lines 190-203: commit the last line, add the descender padding, y = 0
CommitLast ==
    /\ lpc = "commit"
    /\ lines' = FinalLines(lines, current_line, current_line_width, max_line_height)
    /\ total_height' = (IF current_line # <<>>
                        THEN total_height + max_line_height + LineSpacing
                        ELSE total_height) + DescenderPadding
    /\ y' = 0
    /\ k' = 1
    /\ lpc' = "draw"
    /\ UNCHANGED <<group_words_data, current_word_index, group_start_index,
                   caption_width, caption_parts, word_to_highlight,
                   current_line, current_line_width, max_line_height, drawn>>
    /\ UNCHANGED <<schedVars, styleVars, animVars, jobVars>>

\* `x = (caption_width - line_width) // 2`
LineStartX(cw, line_width) == (cw - line_width) \div 2

\* x of the j-th word of a line: each word moves x by word_width + space_width
RECURSIVE WordX(_, _, _)
WordX(line_words, x0, j) ==
    IF j = 1 THEN x0
    ELSE WordX(line_words, x0, j - 1) + line_words[j - 1].width + space_width

\* `if word_to_highlight == word`: the highlight rectangle is drawn
DrawsBox(wth, word) == wth = word

\* lines 204-235: one iteration of `for line_words, line_width, line_height in lines`
DrawLine ==
    /\ lpc = "draw"
    /\ k <= Len(lines)
    /\ LET ln == lines[k]
           x0 == LineStartX(caption_width, ln.width)
       IN  /\ drawn' = drawn \o
                  [j \in 1..Len(ln.words) |->
                      [word |-> ln.words[j].word, pos |-> ln.words[j].pos,
                       width |-> ln.words[j].width, line |-> k,
                       x |-> WordX(ln.words, x0, j), y |-> y,
                       box |-> DrawsBox(word_to_highlight, ln.words[j].word)]]
           /\ y' = y + ln.height + LineSpacing
    /\ k' = k + 1
    /\ lpc' = IF k = Len(lines) THEN "done" ELSE "draw"
    /\ UNCHANGED <<group_words_data, current_word_index, group_start_index,
                   caption_width, caption_parts, word_to_highlight, lines,
                   current_line, current_line_width, max_line_height, total_height>>
    /\ UNCHANGED <<schedVars, styleVars, animVars, jobVars>>

NextLayout == Prepare \/ LayoutWord \/ CommitLast \/ DrawLine

SpecLayout == InitLayout /\ [][NextLayout]_vars

\* ======================================================================
\* _create_animated_text_clip as a state machine (SpecAnim)
\* ======================================================================
InitAnim ==
    /\ anim_duration \in 1..MaxDuration
    /\ cfg_fade_duration \in 0..MaxFade
    /\ cfg_scale_intensity \in Intensities
    /\ use_fade_and_scale \in BOOLEAN
    /\ fade_duration10 = None
    /\ sample_time2 = 0
    /\ frames = <<>>
    /\ apc = "create"
    /\ word_timestamps = <<>>
    /\ video_duration = 1
    /\ word_count = 1
    /\ mode = "word_by_word"
    /\ i = 0
    /\ text_clips = <<>>
    /\ timings = <<>>
    /\ break_index = -1
    /\ output_written = FALSE
    /\ pc = "idle"
    /\ LayoutIdle
    /\ StyleDefault
    /\ JobsIdle

\* lines 107-137: build the clip; with use_fade_and_scale the fade duration
\* is computed and the resize and fade effects are attached
CreateAnimatedTextClip ==
    /\ apc = "create"
    /\ fade_duration10' = IF use_fade_and_scale
                          THEN FadeDuration10(cfg_fade_duration, anim_duration)
                          ELSE None
    /\ sample_time2' = 0
    /\ frames' = <<>>
    /\ apc' = "play"
    /\ UNCHANGED <<anim_duration, cfg_fade_duration, cfg_scale_intensity, use_fade_and_scale>>
    /\ UNCHANGED <<schedVars, layoutVars, styleVars, jobVars>>

\* the compositor evaluates the clip's effects at clip-local time sample_time2 / 2
RenderFrame ==
    /\ apc = "play"
    /\ sample_time2 <= 2 * anim_duration
    /\ LET t10 == 5 * sample_time2
           d10 == 10 * anim_duration
           frame == IF use_fade_and_scale
                    THEN [t2 |-> sample_time2,
                          scale |-> ScaleNum(sample_time2, anim_duration),
                          fade_in |-> FadeInFactor(t10, fade_duration10),
                          fade_out |-> FadeOutFactor(t10, d10, fade_duration10)]
                    ELSE [t2 |-> sample_time2,
                          scale |-> 1000 * HalfSpan2(anim_duration),
                          fade_in |-> [num |-> 1, den |-> 1],
                          fade_out |-> [num |-> 1, den |-> 1]]
       IN  frames' = Append(frames, frame)
    /\ sample_time2' = sample_time2 + 1
    /\ apc' = IF sample_time2 = 2 * anim_duration THEN "done" ELSE "play"
    /\ UNCHANGED <<anim_duration, cfg_fade_duration, cfg_scale_intensity,
                   use_fade_and_scale, fade_duration10>>
    /\ UNCHANGED <<schedVars, layoutVars, styleVars, jobVars>>

NextAnim == CreateAnimatedTextClip \/ RenderFrame

SpecAnim == InitAnim /\ [][NextAnim]_vars

\* ======================================================================
\* the job server as a state machine (SpecJobs)
\* ======================================================================
InitJobs ==
    /\ active_connections = <<>>
    /\ task = NoTask
    /\ word_timestamps = <<>>
    /\ video_duration = 1
    /\ word_count = 1
    /\ mode = "grouped"
    /\ i = 0
    /\ text_clips = <<>>
    /\ timings = <<>>
    /\ break_index = -1
    /\ output_written = FALSE
    /\ pc = "idle"
    /\ LayoutIdle
    /\ StyleDefault
    /\ AnimIdle

NotJobs == UNCHANGED <<schedVars, layoutVars, styleVars, animVars>>

\* websocket_endpoint -> manager.connect(websocket, client_id)
Connect(c) ==
    /\ c \in Live(active_connections) \/ Len(active_connections) < MaxSlots
    /\ active_connections' = DictSet(active_connections, c)
    /\ UNCHANGED task
    /\ NotJobs

\* manager.disconnect(client_id): on WebSocketDisconnect in
\* websocket_endpoint, or when the pong of send_personal_message fails
Disconnect(c) ==
    /\ c \in Live(active_connections)
    /\ active_connections' = DictDelete(active_connections, c)
    /\ UNCHANGED task
    /\ NotJobs

\* POST /process-video: the job is stored as queued and the task created
ProcessVideo ==
    /\ task.pc = "none"
    /\ task' = [task EXCEPT !.job = [status |-> "queued", progress |-> 0, timestamps |-> <<>>],
                            !.pc = "queued"]
    /\ UNCHANGED active_connections
    /\ NotJobs

\* process_video_background starts: status "processing", first broadcast
TaskStart ==
    /\ task.pc = "queued"
    /\ task' = Begin([task EXCEPT !.job.status = "processing"], active_connections, "start")
    /\ UNCHANGED active_connections
    /\ NotJobs

\* `await asyncio.sleep(2)` returns: progress, timestamps at 60, broadcast
SleepDone ==
    /\ task.pc = "sleep"
    /\ LET n == task.step + 1
           T == [task EXCEPT !.step = n,
                             !.job.progress = Steps[n],
                             !.job.timestamps = IF Steps[n] = 60 THEN MockTimestamps ELSE @]
       IN  task' = Begin(T, active_connections, "step")
    /\ UNCHANGED active_connections
    /\ NotJobs

\* `await connection.send_text(...)` returns
SendOk ==
    /\ task.pc = "broadcast"
    /\ task.sending # Absent
    /\ task' = BroadcastLoop(task, active_connections)
    /\ UNCHANGED active_connections
    /\ NotJobs

\* `await connection.send_text(...)` raises: except -> self.disconnect(client_id)
SendFail ==
    /\ task.pc = "broadcast"
    /\ task.sending # Absent
    /\ active_connections' = DictDelete(active_connections, task.sending)
    /\ task' = BroadcastLoop(task, active_connections')
    /\ NotJobs

NextJobs ==
    \/ \E c \in Clients : Connect(c)
    \/ \E c \in Clients : Disconnect(c)
    \/ ProcessVideo
    \/ TaskStart
    \/ SleepDone
    \/ SendOk
    \/ SendFail

SpecJobs == InitJobs /\ [][NextJobs]_vars

\* ======================================================================
\* Properties of the scheduler (checked under Spec)
\* ======================================================================
NumWords == Len(word_timestamps)
WordIndices == 0..(NumWords - 1)
StartOf(idx) == WordAt(word_timestamps, idx).start
EndOf(idx) == WordAt(word_timestamps, idx).end
Resolve(idx) == calculate_word_duration(word_timestamps, video_duration, idx)
TimingSet == {timings[j] : j \in 1..Len(timings)}
ClipSet == {text_clips[j] : j \in 1..Len(text_clips)}
ClipsOf(idx) == {j \in 1..Len(text_clips) : text_clips[j].index = idx}
MonotonicStarts == \A a \in WordIndices, b \in WordIndices : a <= b => StartOf(a) <= StartOf(b)
\* every index up to idx starts before the video ends, so the loop gets past idx
ReachedPast(idx) == \A j \in 0..idx : StartOf(j) < video_duration

\* C1 as stated: the end time the resolver returned for a word with a
\* following word is the next word's start; for the last word it is
\* min(own end, video duration).
C1_ContinuityAsStated ==
    \A t \in TimingSet :
        /\ t.index < NumWords - 1 => t.end = StartOf(t.index + 1)
        /\ t.index = NumWords - 1 => t.end = Min(EndOf(t.index), video_duration)

\* C1 (amended): the end time the resolver returned for a word with a
\* following word is min(next word's start, video duration); for the last
\* word it is min(own end, video duration); start is the word's own start and
\* duration is end - start.
C1_ContinuityClamped ==
    \A t \in TimingSet :
        /\ t.start = StartOf(t.index)
        /\ t.duration = t.end - t.start
        /\ t.index < NumWords - 1 => t.end = Min(StartOf(t.index + 1), video_duration)
        /\ t.index = NumWords - 1 => t.end = Min(EndOf(t.index), video_duration)

C1_Witness ==
    \E t \in TimingSet :
        /\ t.index < NumWords - 1
        /\ StartOf(t.index + 1) > video_duration
        /\ t.start < video_duration
        /\ EndOf(t.index) < StartOf(t.index + 1)

\* C2: in the grouped scheduler with non-decreasing start times, two clips
\* emitted one after the other do not overlap (a.start + a.duration <=
\* b.start), and they abut (a.start + a.duration = b.start) whenever no word
\* from a's up to b's leaves a gap before the next word's start.
NoGapBetween(a, b) == \A j \in a..(b - 1) : EndOf(j) >= StartOf(j + 1)

C2_NoOverlapContiguous ==
    (mode = "grouped" /\ MonotonicStarts) =>
        \A j \in 1..(Len(text_clips) - 1) :
            LET a == text_clips[j]
                b == text_clips[j + 1]
            IN  /\ a.index < b.index
                /\ a.start + a.duration <= b.start
                /\ NoGapBetween(a.index, b.index) => a.start + a.duration = b.start

C2_Witness ==
    /\ mode = "grouped"
    /\ MonotonicStarts
    /\ Len(text_clips) = 2
    /\ text_clips[2].index = text_clips[1].index + 2
    /\ NoGapBetween(text_clips[1].index, text_clips[2].index)
    /\ EndOf(text_clips[1].index) > StartOf(text_clips[1].index + 1)

\* C3: once the loop reaches an index whose start is at or after the video
\* duration it stops: no clip exists for that index or any later one, the
\* loop never runs past such an index, and the run still composes and
\* writes the output (no error) -- in both schedulers.
C3_EarlyTermination ==
    /\ \A c \in ClipSet : ReachedPast(c.index)
    /\ pc = "loop" => (i = 0 \/ ReachedPast(i - 1))
    /\ break_index # -1 =>
          /\ pc \in {"compose", "done"}
          /\ StartOf(break_index) >= video_duration
          /\ i = break_index
          /\ \A c \in ClipSet : c.index < break_index
    /\ pc = "done" => output_written

C3_Witness ==
    /\ pc = "done"
    /\ output_written
    /\ break_index # -1
    /\ text_clips # <<>>
    /\ \E j \in WordIndices : j > break_index /\ StartOf(j) < video_duration
                                /\ Resolve(j).duration >= MinWordDuration

\* C4 as stated: in the grouped scheduler every index whose resolved
\* duration is <= 0 emits no clip and is not where scheduling stops, and
\* every later index with start < video duration and duration > 0 has
\* exactly one clip; every clip has duration > 0.
C4_DegenerateAsStated ==
    (mode = "grouped" /\ pc = "done") =>
        /\ \A idx \in WordIndices :
              Resolve(idx).duration <= 0 =>
                  /\ ClipsOf(idx) = {}
                  /\ break_index # idx
                  /\ \A j \in WordIndices :
                        (j > idx /\ StartOf(j) < video_duration /\ Resolve(j).duration > 0)
                            => Cardinality(ClipsOf(j)) = 1
        /\ \A c \in ClipSet : c.duration > 0

\* C4 (amended): in the grouped scheduler an index that is reached with
\* start < video duration and resolved duration <= 0 emits no clip and is
\* not where scheduling stops; every index with duration > 0 that is not at
\* or after an index with start >= video duration has exactly one clip; every
\* clip has duration > 0.
C4_DegenerateSkipped ==
    (mode = "grouped" /\ pc = "done") =>
        /\ \A idx \in WordIndices :
              (ReachedPast(idx) /\ Resolve(idx).duration <= 0) =>
                  /\ ClipsOf(idx) = {}
                  /\ break_index # idx
                  /\ \A j \in WordIndices :
                        (j > idx /\ ReachedPast(j) /\ Resolve(j).duration > 0)
                            => Cardinality(ClipsOf(j)) = 1
        /\ \A idx \in WordIndices :
              (ReachedPast(idx) /\ Resolve(idx).duration > 0) => Cardinality(ClipsOf(idx)) = 1
        /\ \A c \in ClipSet : c.duration > 0

C4_Witness ==
    /\ mode = "grouped"
    /\ pc = "done"
    /\ \E idx \in WordIndices, j \in WordIndices :
          /\ ReachedPast(idx)
          /\ Resolve(idx).duration = 0
          /\ j > idx
          /\ ClipsOf(idx) = {}
          /\ ClipsOf(j) # {}

\* C5: every end time the resolver returned is <= video duration, and every
\* emitted clip ends (start + duration) at or before the video duration.
C5_Clamping ==
    /\ \A t \in TimingSet : t.end <= video_duration
    /\ \A c \in ClipSet : c.start + c.duration <= video_duration

C5_Witness ==
    \E c \in ClipSet :
        /\ c.index = NumWords - 1
        /\ EndOf(c.index) > video_duration
        /\ c.start + c.duration = video_duration

\* C10: for every word index and the configured group size g, the window
\* [gs, min(n, gs + g)) with gs = (i div g) * g contains i, is shared by all
\* indices with the same i div g, and the windows partition [0, n); the
\* windows recorded in the grouped clips are these windows.
Window(idx) == GroupStartIndex(idx, word_count)..(GroupEndIndex(idx, word_count, NumWords) - 1)

C10_Grouping ==
    /\ \A idx \in WordIndices :
          /\ idx \in Window(idx)
          /\ Window(idx) \subseteq WordIndices
          /\ Cardinality(Window(idx)) <= word_count
          /\ GroupStartIndex(idx, word_count) = idx - (idx % word_count)
          /\ Cardinality(Window(idx)) < word_count => (NumWords - 1) \in Window(idx)
    /\ \A a \in WordIndices, b \in WordIndices :
          /\ (a \div word_count = b \div word_count) => Window(a) = Window(b)
          /\ (a \div word_count # b \div word_count) => Window(a) \cap Window(b) = {}
    /\ UNION {Window(idx) : idx \in WordIndices} = WordIndices
    /\ mode = "grouped" =>
          \A c \in ClipSet : c.group_start..(c.group_end - 1) = Window(c.index)
    \* the scenario of the specification: g = 4, n = 9, index 5
    /\ GroupStartIndex(5, 4) = 4 /\ GroupEndIndex(5, 4, 9) = 8
    /\ GroupStartIndex(8, 4) = 8 /\ GroupEndIndex(8, 4, 9) = 9
    /\ GroupStartIndex(3, 4) = 0 /\ GroupEndIndex(3, 4, 9) = 4

C10_Witness ==
    /\ mode = "grouped"
    /\ word_count = 2
    /\ NumWords = 3
    /\ \E c \in ClipSet : c.index = 2 /\ c.group_start = 2 /\ c.group_end = 3
    /\ \E c \in ClipSet : c.index = 1 /\ c.group_start = 0 /\ c.group_end = 2

\* C12 as stated: when the transcription is empty or its start times are
\* not non-decreasing, scheduling never begins: the resolver is never
\* called, no clip is emitted and no output video is written.
C12_InputValidationAsStated ==
    (NumWords = 0 \/ ~MonotonicStarts) =>
        /\ timings = <<>>
        /\ text_clips = <<>>
        /\ ~output_written

\* ======================================================================
\* Properties of the group-clip layout (checked under SpecLayout)
\* ======================================================================
RECURSIVE SumWidths(_)
SumWidths(ws) == IF ws = <<>> THEN 0 ELSE ws[1].width + SumWidths(Tail(ws))

\* the word tokens of all lines, in order
RECURSIVE Flatten(_)
Flatten(ls) == IF ls = <<>> THEN <<>> ELSE ls[1].words \o Flatten(Tail(ls))

\* sum of words' widths plus (n - 1) spaces
InkWidth(ws) == SumWidths(ws) + (Len(ws) - 1) * space_width

WithinWidth(ws) ==
    \/ Len(ws) = 1 /\ ws[1].width > caption_width
    \/ InkWidth(ws) <= caption_width

\* C6: every produced line, except a line of one word that alone is wider
\* than the caption width, has sum of word widths + (n - 1) * space width
\* <= caption width; the line being filled obeys the same bound.
C6_LineWidthBound ==
    /\ \A j \in 1..Len(lines) : WithinWidth(lines[j].words)
    /\ lpc \in {"layout", "commit"} => WithinWidth(current_line)

C6_Witness ==
    /\ lpc = "done"
    /\ Len(lines) >= 2
    /\ \E j \in 1..Len(lines) :
          /\ Len(lines[j].words) = 2
          /\ InkWidth(lines[j].words) = caption_width
          /\ lines[j].width > caption_width

\* C7: for a non-empty group, the lines concatenated in order are exactly
\* the cleaned input words, each token once and in input order; the words
\* drawn are the same sequence.
C7_WordConservation ==
    /\ lpc \in {"layout", "commit"} =>
          LET toks == Flatten(lines) \o current_line
          IN  /\ Len(toks) = k - 1
              /\ \A j \in 1..Len(toks) : toks[j].pos = j /\ toks[j].word = caption_parts[j]
    /\ lpc \in {"draw", "done"} =>
          LET toks == Flatten(lines)
          IN  /\ Len(toks) = Len(group_words_data)
              /\ \A j \in 1..Len(toks) :
                    /\ toks[j].pos = j
                    /\ toks[j].word = clean_word(group_words_data[j])
    /\ lpc = "done" =>
          /\ Len(drawn) = Len(group_words_data)
          /\ \A j \in 1..Len(drawn) :
                drawn[j].pos = j /\ drawn[j].word = clean_word(group_words_data[j])

C7_Witness ==
    /\ lpc = "done"
    /\ Len(group_words_data) = 3
    /\ Len(lines) = 2
    /\ Len(lines[1].words) = 2
    /\ caption_parts[1] = caption_parts[3]
    /\ Len(drawn) = 3

\* C8 as stated: no recorded line is empty, a word wider than the caption
\* width is alone on its line, and the canvas height is the descender
\* padding plus (height + line spacing) of the non-empty lines only.
RECURSIVE NonEmptyHeight(_)
NonEmptyHeight(ls) ==
    IF ls = <<>> THEN 0
    ELSE (IF ls[1].words # <<>> THEN ls[1].height + LineSpacing ELSE 0)
         + NonEmptyHeight(Tail(ls))

C8_OversizedPolicyAsStated ==
    /\ \A j \in 1..Len(lines) : lines[j].words # <<>>
    /\ \A j \in 1..Len(lines) :
          (\E m \in 1..Len(lines[j].words) : lines[j].words[m].width > caption_width)
              => Len(lines[j].words) = 1
    /\ lpc \in {"draw", "done"} => total_height = NonEmptyHeight(lines) + DescenderPadding

\* C9 as stated: at most one drawn word has the highlight box, and it is
\* the word at current_word_index.
BoxedSet == {j \in 1..Len(drawn) : drawn[j].box}

C9_HighlightExclusiveAsStated ==
    /\ Cardinality(BoxedSet) <= 1
    /\ \A j \in BoxedSet : group_start_index + (drawn[j].pos - 1) = current_word_index

\* C11 as stated: when config.highlight_text is false, no drawn word has the
\* highlight box.
C11_NoHighlightWhenDisabledAsStated ==
    highlight_text = FALSE => BoxedSet = {}

\* C15 as stated: the first word of each line is drawn at
\* (caption width - line width) / 2 when centered, 0 when left aligned and
\* caption width - line width when right aligned, line width being the sum
\* of the words' widths plus (n - 1) spaces; every following word is drawn at
\* the previous word's x plus its width plus one space.
AlignedX(align, cw, line_width) ==
    CASE align = "center" -> (cw - line_width) \div 2
      [] align = "left" -> 0
      [] align = "right" -> cw - line_width

C15_HorizontalPlacementAsStated ==
    \A j \in 1..Len(drawn) :
        IF j = 1 \/ drawn[j - 1].line # drawn[j].line
        THEN drawn[j].x = AlignedX(horizontal_align, caption_width,
                                   InkWidth(lines[drawn[j].line].words))
        ELSE drawn[j].x = drawn[j - 1].x + drawn[j - 1].width + space_width

\* ======================================================================
\* Properties of the animation (checked under SpecAnim)
\* ======================================================================
FrameSet == {frames[j] : j \in 1..Len(frames)}
FrameAt(t2) == CHOOSE f \in FrameSet : f.t2 = t2
\* the frame is faded to nothing: one of the two fade factors is 0
Opacity0(f) == f.fade_in.num = 0 \/ f.fade_out.num = 0
InFadeIn(f) == f.fade_in.den # 1
InFadeOut(f) == f.fade_out.den # 1

\* C13 as stated: with animation enabled and a configured fade duration > 0,
\* the frame at t = 0 and the frame at t = d are fully faded, and the scale
\* at t = d / 2 is the largest scale of the clip and equals
\* 1 + config.scale_effect_intensity.
C13_AnimationBoundaryAsStated ==
    (apc = "done" /\ use_fade_and_scale /\ cfg_fade_duration > 0) =>
        /\ Opacity0(FrameAt(0))
        /\ Opacity0(FrameAt(2 * anim_duration))
        /\ \A f \in FrameSet : f.scale <= FrameAt(anim_duration).scale
        /\ FrameAt(anim_duration).scale = (1000 + cfg_scale_intensity) * HalfSpan2(anim_duration)

\* C14: with animation enabled the fade duration used is
\* min(config.fade_duration, 0.3 * d); it is <= d, and the fade-in window
\* [0, f] and the fade-out window [d - f, d] do not overlap: f <= d - f, and
\* no frame is inside both ramps.
C14_FadeCap ==
    (apc \in {"play", "done"} /\ use_fade_and_scale) =>
        /\ fade_duration10 <= 10 * cfg_fade_duration
        /\ 10 * fade_duration10 <= 3 * 10 * anim_duration
        /\ fade_duration10 = 10 * cfg_fade_duration \/ 10 * fade_duration10 = 3 * 10 * anim_duration
        /\ fade_duration10 <= 10 * anim_duration
        /\ 2 * fade_duration10 <= 10 * anim_duration
        /\ \A f \in FrameSet : ~(InFadeIn(f) /\ InFadeOut(f))

C14_Witness ==
    /\ apc = "done"
    /\ use_fade_and_scale
    /\ 3 * anim_duration < 10 * cfg_fade_duration
    /\ fade_duration10 = 3 * anim_duration
    /\ \E f \in FrameSet : InFadeIn(f) /\ f.fade_in.num > 0
    /\ \E f \in FrameSet : InFadeOut(f) /\ f.fade_out.num > 0

\* ======================================================================
\* Properties of the job server (checked under SpecJobs)
\* ======================================================================
JobExists == task.pc # "none"
StatusMoves == {<<"queued", "processing">>, <<"processing", "completed">>,
                <<"processing", "error">>}

\* C16 as stated (safety part): the job's status only moves queued ->
\* processing -> completed or error, completed and error are never left,
\* progress never decreases, and a completed job has progress 100 and
\* non-empty timestamps.
C16_JobLifecycleAsStated ==
    /\ [](JobExists /\ task.job.status = "completed" =>
            task.job.progress = 100 /\ task.job.timestamps # <<>>)
    /\ [][(JobExists /\ task.job.status # task'.job.status) =>
            <<task.job.status, task'.job.status>> \in StatusMoves]_vars
    /\ [][JobExists => task'.job.progress >= task.job.progress]_vars

\* C17 as stated: broadcast never raises, a returned broadcast has tried
\* every client that was connected when it started and still is, a client
\* whose send failed is no longer connected when the broadcast goes on, and
\* the job never gets status "error".
C17_BroadcastAsStated ==
    /\ ~task.raised
    /\ JobExists => task.job.status # "error"
    /\ (task.returned.start \cap task.returned.live) \subseteq task.returned.attempted

====
